---------------------------- MODULE Spec2Model ----------------------------
(***************************************************************************)
(* AddressBase Premium ingestion: the record-type registry, the field      *)
(* mapper (CreateObject), the import ledger (File) and the ingestion       *)
(* pipeline (CreateAddressBaseTables), modelled from AddressBase.py and    *)
(* BuildAddressBaseTables.py.                                              *)
(*                                                                         *)
(* Conventions.  A nullable value is a sequence of length at most one:     *)
(* <<>> is None / SQL NULL and <<x>> is the value x.  A file name or path  *)
(* is the sequence of its components between "/" separators, so            *)
(* "d/a.csv" is <<"d", "a.csv">> and the bare name "a.csv" is <<"a.csv">>. *)
(* A csv row is the sequence of its text fields; "" is the empty field.    *)
(***************************************************************************)
EXTENDS Integers, Sequences, FiniteSets, TLC

None == <<>>

Some(x) == <<x>>

Min(a, b) == IF a <= b THEN a ELSE b

Range(s) == {s[k] : k \in DOMAIN s}

RECURSIVE SumSeq(_)
SumSeq(s) == IF s = <<>> THEN 0 ELSE Head(s) + SumSeq(Tail(s))

RECURSIVE Flatten(_)
Flatten(ss) == IF ss = <<>> THEN <<>> ELSE Head(ss) \o Flatten(Tail(ss))

(***************************************************************************)
(* The mapped classes of AddressBase.py: the attribute keys of each class  *)
(* in declaration order, as inspect(mapping).attrs yields them.            *)
(***************************************************************************)
HeaderAttrs ==
    <<"id", "CUSTODIAN_NAME", "LOCAL_CUSTODIAN_CODE", "PROCESS_DATE",
    "VOLUME_NUMBER", "ENTRY_DATE", "TIME_STAMP", "VERSION", "FILE_TYPE">>

StreetAttrs ==
    <<"id", "CHANGE_TYPE", "PRO_ORDER", "USRN", "RECORD_TYPE",
    "SWA_ORG_REF_NAMING", "STATE", "STATE_DATE", "STREET_SURFACE",
    "STREET_CLASSIFICATION", "VERSION", "STREET_START_DATE",
    "STREET_END_DATE", "LAST_UPDATE_DATE", "RECORD_ENTRY_DATE",
    "STREET_START_X", "STREET_START_Y", "STREET_START_LAT",
    "STREET_START_LONG", "STREET_END_X", "STREET_END_Y", "STREET_END_LAT",
    "STREET_END_LONG", "STREET_TOLERANCE">>

StreetDescriptorAttrs ==
    <<"id", "CHANGE_TYPE", "PRO_ORDER", "USRN", "STREET_DESCRIPTION",
    "LOCALITY_NAME", "TOWN_NAME", "ADMINISTRATIVE_AREA", "LANGUAGE",
    "START_DATE", "END_DATE", "LAST_UPDATE_DATE", "ENTRY_DATE">>

BLPUAttrs ==
    <<"id", "CHANGE_TYPE", "PRO_ORDER", "UPRN", "LOGICAL_STATUS",
    "BLPU_STATE", "BLPU_STATE_DATE", "PARENT_UPRN", "X_COORDINATE",
    "Y_COORDINATE", "LATITUDE", "LONGITUDE", "RPC", "LOCAL_CUSTODIAN_CODE",
    "COUNTRY", "START_DATE", "END_DATE", "LAST_UPDATE_DATE", "ENTRY_DATE",
    "ADDRESSBASE_POSTAL", "POSTCODE_LOCATOR", "MULTI_OCC_COUNT">>

ApplicationCrossReferenceAttrs ==
    <<"id", "CHANGE_TYPE", "PRO_ORDER", "UPRN", "XREF_KEY", "CROSS_REFERENCE",
    "VERSION", "SOURCE", "START_DATE", "END_DATE", "LAST_UPDATE_DATE",
    "ENTRY_DATE">>

LPIAttrs ==
    <<"id", "CHANGE_TYPE", "PRO_ORDER", "UPRN", "LPI_KEY", "LANGUAGE",
    "LOGICAL_STATUS", "START_DATE", "END_DATE", "LAST_UPDATE_DATE",
    "ENTRY_DATE", "SAO_START_NUMBER", "SAO_START_SUFFIX", "SAO_END_NUMBER",
    "SAO_END_SUFFIX", "SAO_TEXT", "PAO_START_NUMBER", "PAO_START_SUFFIX",
    "PAO_END_NUMBER", "PAO_END_SUFFIX", "PAO_TEXT", "USRN",
    "USRN_MATCH_INDICATOR", "AREA_NAME", "LEVEL", "OFFICIAL_FLAG">>

DeliveryPointAddressAttrs ==
    <<"id", "CHANGE_TYPE", "PRO_ORDER", "UPRN", "UDPRN", "ORGANISATION_NAME",
    "DEPARTMENT_NAME", "SUB_BUILDING_NAME", "BUILDING_NAME",
    "BUILDING_NUMBER", "DEPENDENT_THOROUGHFARE", "THOROUGHFARE",
    "DOUBLE_DEPENDENT_LOCALITY", "DEPENDENT_LOCALITY", "POST_TOWN",
    "POSTCODE", "POSTCODE_TYPE", "DELIVERY_POINT_SUFFIX",
    "WELSH_DEPENDENT_THOROUGHFARE", "WELSH_THOROUGHFARE",
    "WELSH_DOUBLE_DEPENDENT_LOCALITY", "WELSH_DEPENDENT_LOCALITY",
    "WELSH_POST_TOWN", "PO_BOX_NUMBER", "PROCESS_DATE", "START_DATE",
    "END_DATE", "LAST_UPDATE_DATE", "ENTRY_DATE">>

MetaDataAttrs ==
    <<"id", "GAZ_NAME", "GAZ_SCOPE", "TER_OF_USE", "LINKED_DATA", "GAZ_OWNER",
    "NGAZ_FREQ", "CUSTODIAN_NAME", "CUSTODIAN_UPRN", "LOCAL_CUSTODIAN_CODE",
    "CO_ORD_SYSTEM", "CO_ORD_UNIT", "META_DATE", "CLASS_SCHEME", "GAZ_DATE",
    "LANGUAGE", "CHARACTER_SET">>

SuccessorCrossReferenceAttrs ==
    <<"id", "CHANGE_TYPE", "PRO_ORDER", "UPRN", "SUCC_KEY", "START_DATE",
    "END_DATE", "LAST_UPDATE_DATE", "ENTRY_DATE", "SUCCESSOR">>

OrganisationAttrs ==
    <<"id", "CHANGE_TYPE", "PRO_ORDER", "UPRN", "ORG_KEY", "ORGANISATION",
    "LEGAL_NAME", "START_DATE", "END_DATE", "LAST_UPDATE_DATE", "ENTRY_DATE">>

ClassificationAttrs ==
    <<"id", "CHANGE_TYPE", "PRO_ORDER", "UPRN", "CLASS_KEY",
    "CLASSIFICATION_CODE", "CLASS_SCHEME", "SCHEME_VERSION", "START_DATE",
    "END_DATE", "LAST_UPDATE_DATE", "ENTRY_DATE", "CLASS_TYPE", "ABC">>

TrailerAttrs ==
    <<"id", "NEXT_VOLUME_NUMBER", "RECORD_COUNT", "ENTRY_DATE", "TIME_STAMP">>

MappedAttrs ==
    [Header                    |-> HeaderAttrs,
     Street                    |-> StreetAttrs,
     StreetDescriptor          |-> StreetDescriptorAttrs,
     BLPU                      |-> BLPUAttrs,
     ApplicationCrossReference |-> ApplicationCrossReferenceAttrs,
     LPI                       |-> LPIAttrs,
     DeliveryPointAddress      |-> DeliveryPointAddressAttrs,
     MetaData                  |-> MetaDataAttrs,
     SuccessorCrossReference   |-> SuccessorCrossReferenceAttrs,
     Organisation              |-> OrganisationAttrs,
     Classification            |-> ClassificationAttrs,
     Trailer                   |-> TrailerAttrs]

(***************************************************************************)
(* RecordType: the field list is the attribute keys of the mapped class    *)
(* that are not in myfields and that match regexp '^[A-Z][A-Z_]*$'.  Of    *)
(* the keys above the pattern rejects exactly the lower-case key "id".     *)
(***************************************************************************)
myfields == {"id", "CLASS_TYPE", "ABC"}

LowerCaseKeys == {"id"}

regexp(attribute) == attribute \notin LowerCaseKeys

RecordTypeInit(name, code, mapping, ignore) ==
    [name    |-> name,
     code    |-> code,
     fields  |-> SelectSeq(MappedAttrs[mapping],
                           LAMBDA a : a \notin myfields /\ regexp(a)),
     mapping |-> mapping,
     ignore  |-> ignore]

RecordTypeRows ==
    << <<"Header",                      "10", "Header",                    FALSE>>,
       <<"Street",                      "11", "Street",                    FALSE>>,
       <<"Street Descriptor",           "15", "StreetDescriptor",          FALSE>>,
       <<"BLPU",                        "21", "BLPU",                      FALSE>>,
       <<"Application Cross Reference", "23", "ApplicationCrossReference", FALSE>>,
       <<"LPI",                         "24", "LPI",                       FALSE>>,
       <<"Delivery Point Address",      "28", "DeliveryPointAddress",      FALSE>>,
       <<"MetaData",                    "29", "MetaData",                  FALSE>>,
       <<"Successor Cross Reference",   "30", "SuccessorCrossReference",   FALSE>>,
       <<"Organisation",                "31", "Organisation",              FALSE>>,
       <<"Classification",              "32", "Classification",            FALSE>>,
       <<"Trailer",                     "99", "Trailer",                   FALSE>> >>

CreateRecordTypes ==
    [c \in {r[2] : r \in Range(RecordTypeRows)} |->
        LET r == CHOOSE q \in Range(RecordTypeRows) : q[2] = c
        IN  RecordTypeInit(r[1], r[2], r[3], r[4])]

RecTypes == CreateRecordTypes

Codes == DOMAIN RecTypes

(***************************************************************************)
(* CreateObject(rt, rec): a fresh instance of rt.mapping (every attribute  *)
(* unset, i.e. None), then for each pair of zip(rt.fields, rec) the        *)
(* attribute is set to the text when it is truthy (non-empty) and to None  *)
(* otherwise.  zip stops at the shorter of the two sequences.              *)
(***************************************************************************)
NewObject(mapping) ==
    [cls |-> mapping, attrs |-> [a \in Range(MappedAttrs[mapping]) |-> None]]

setattr(ob, f, v) == [ob EXCEPT !.attrs = (f :> v) @@ ob.attrs]

Zip(fs, vs) == [k \in 1..Min(Len(fs), Len(vs)) |-> <<fs[k], vs[k]>>]

Truthy(v) == v # ""

RECURSIVE SetFields_KeepEmpty(_, _)
SetFields_KeepEmpty(ob, pairs) ==
    IF pairs = <<>> THEN ob
    ELSE SetFields_KeepEmpty(setattr(ob, Head(pairs)[1], Some(Head(pairs)[2])),
                             Tail(pairs))

RECURSIVE SetFields(_, _)
SetFields(ob, pairs) ==
    IF pairs = <<>> THEN ob
    ELSE LET f == Head(pairs)[1]
             v == Head(pairs)[2]
         IN  SetFields(IF Truthy(v) THEN setattr(ob, f, Some(v))
                                    ELSE setattr(ob, f, None),
                       Tail(pairs))

CreateObject_RejectMismatch(rt, rec) ==
    IF rt.mapping # "" /\ ~rt.ignore /\ Len(rec) = Len(rt.fields)
    THEN Some(SetFields(NewObject(rt.mapping), Zip(rt.fields, rec)))
    ELSE None

CreateObject(rt, rec) ==
    IF rt.mapping # "" /\ ~rt.ignore
    THEN Some(SetFields(NewObject(rt.mapping), Zip(rt.fields, rec)))
    ELSE None

(***************************************************************************)
(* Bounds of the model.                                                    *)
(***************************************************************************)
MaxPatterns == 2

\* Rows read, over all the files imported since the tables were created.
MaxLines == 2

MaxRuns == 2

MaxCalls == 3

MapSlack == 1

(***************************************************************************)
(* Input text.  FieldText[k] is a distinct non-empty text for position k,  *)
(* so that a field put at the wrong position is visible.                   *)
(***************************************************************************)
FieldText ==
    <<"v01", "v02", "v03", "v04", "v05", "v06", "v07", "v08", "v09", "v10",
      "v11", "v12", "v13", "v14", "v15", "v16", "v17", "v18", "v19", "v20",
      "v21", "v22", "v23", "v24", "v25", "v26", "v27", "v28", "v29", "v30",
      "v31", "v32">>

RawFields(m, empties) ==
    [k \in 1..m |-> IF k \in empties THEN "" ELSE FieldText[k]]

Line(code, m, empties) == <<code>> \o RawFields(m, empties)

\* Rows the csv reader may yield in a pipeline run: a Trailer row of the
\* declared length with an empty field, a BLPU row with one extra trailing
\* field, a Trailer row two fields short, a row with the unregistered
\* discriminator "77", and the empty row of a blank line.
PipelineRows ==
    { Line("99", 4, {2}), Line("21", 22, {7, 16}), Line("99", 2, {}),
      Line("77", 1, {}), <<>> }

(***************************************************************************)
(* The files on disk, in directory-listing order, and glob.glob.           *)
(***************************************************************************)
FsList == << <<"a.csv">>, <<"d", "a.csv">>, <<"d", "b.csv">> >>

PatternSet == { <<"a.csv">>, <<"d", "*.csv">>, <<"missing.csv">> }

Front(p) == SubSeq(p, 1, Len(p) - 1)

FnMatch(pat, nm) == pat = nm \/ pat = "*.csv"

Glob(p) ==
    SelectSeq(FsList, LAMBDA q : /\ Len(q) = Len(p)
                                 /\ Front(q) = Front(p)
                                 /\ FnMatch(p[Len(p)], q[Len(q)]))

\* os.path.split(name)[1]: the part after the last separator.
Basename(name) == <<name[Len(name)]>>

(***************************************************************************)
(* The ledger: class File.  A store (the committed database, or a          *)
(* session's view of it with its pending changes) holds the rows of the    *)
(* files table in id order and the persisted record objects in insertion   *)
(* order; ids are assigned 1, 2, ... by the store.                         *)
(***************************************************************************)
EmptyStore == [files |-> <<>>, records |-> <<>>]

CountColumns ==
    <<"Headers", "Streets", "StreetDescriptors", "BLPUs", "ApplicationXREFs",
      "LPIs", "DeliveryPointAddresses", "MetaData", "SuccessorXREFs",
      "Organisations", "Classifications", "Trailers">>

NewFileRow(id, fileName, now) ==
    [id                     |-> id,
     FileName               |-> fileName,
     CreateStart            |-> Some(now),
     CreateEnd              |-> None,
     SupersededBy           |-> None,
     Errors                 |-> None,
     Headers                |-> None,
     Streets                |-> None,
     StreetDescriptors      |-> None,
     BLPUs                  |-> None,
     ApplicationXREFs       |-> None,
     LPIs                   |-> None,
     DeliveryPointAddresses |-> None,
     MetaData               |-> None,
     SuccessorXREFs         |-> None,
     Organisations          |-> None,
     Classifications        |-> None,
     Trailers               |-> None]

IsCurrent(row) == row.SupersededBy = None

\* session.query(File).filter(File.FileName == name,
\*                            File.SupersededBy == None).all()
QueryCurrent(s, name) ==
    {r \in DOMAIN s.files : s.files[r].FileName = name /\ IsCurrent(s.files[r])}

\* session.query(File.FileName).filter(File.SupersededBy == None).all()
QueryCurrentFileNames(s) ==
    LET cur == SelectSeq(s.files, IsCurrent)
    IN  [k \in DOMAIN cur |-> cur[k].FileName]

\* File.__init__ up to and including session.commit(): the new row, with
\* the basename of name, is added to whatever the session holds and the
\* whole is committed.  This is the store the commit makes durable.
FileInitCommitted(s, name, now) ==
    [s EXCEPT !.files = Append(@, NewFileRow(Len(@) + 1, Basename(name), now))]

FileInitSession_NoSupersede(s, name, now) == FileInitCommitted(s, name, now)

\* File.__init__ after the commit: every row of old gets SupersededBy set
\* to the new id, in the session only (pending until the next commit).
FileInitSession(s, name, now) ==
    LET old == QueryCurrent(s, name)
        c   == FileInitCommitted(s, name, now)
        id  == Len(c.files)
    IN  [c EXCEPT !.files =
            [r \in DOMAIN @ |->
                IF r \in old THEN [@[r] EXCEPT !.SupersededBy = Some(id)]
                             ELSE @[r]]]

ZeroCounts == [t \in Codes \cup {"Error"} |-> 0]

FileUpdate_WrongKey(s, id, counters, now) ==
    [s EXCEPT !.files[id] =
        [@ EXCEPT !.CreateEnd              = Some(now),
                  !.Errors                 = Some(counters["Error"]),
                  !.Headers                = Some(counters["10"]),
                  !.Streets                = Some(counters["11"]),
                  !.StreetDescriptors      = Some(counters["15"]),
                  !.BLPUs                  = Some(counters["21"]),
                  !.ApplicationXREFs       = Some(counters["23"]),
                  !.LPIs                   = Some(counters["24"]),
                  !.DeliveryPointAddresses = Some(counters["28"]),
                  !.SuccessorXREFs         = Some(counters["30"]),
                  !.Organisations          = Some(counters["31"]),
                  !.Classifications        = Some(counters["32"]),
                  !.MetaData               = Some(counters["29"]),
                  !.Trailers               = Some(counters["10"])]]

\* File.Update before its commit.
FileUpdate(s, id, counters, now) ==
    [s EXCEPT !.files[id] =
        [@ EXCEPT !.CreateEnd              = Some(now),
                  !.Errors                 = Some(counters["Error"]),
                  !.Headers                = Some(counters["10"]),
                  !.Streets                = Some(counters["11"]),
                  !.StreetDescriptors      = Some(counters["15"]),
                  !.BLPUs                  = Some(counters["21"]),
                  !.ApplicationXREFs       = Some(counters["23"]),
                  !.LPIs                   = Some(counters["24"]),
                  !.DeliveryPointAddresses = Some(counters["28"]),
                  !.SuccessorXREFs         = Some(counters["30"]),
                  !.Organisations          = Some(counters["31"]),
                  !.Classifications        = Some(counters["32"]),
                  !.MetaData               = Some(counters["29"]),
                  !.Trailers               = Some(counters["99"])]]

(***************************************************************************)
(* State.                                                                  *)
(*   patterns  the command line's file patterns (fixed for a behaviour)    *)
(*   files     the globbed candidate list of the current run               *)
(*   db        the committed (durable) store                               *)
(*   sess      the session's view: db plus its uncommitted changes         *)
(*   imported  the list of current FileNames read at the start of the run  *)
(*   pc        position of the process                                     *)
(*   i, j      the loop indices of CreateAddressBaseTables (j is None      *)
(*             while the local is unbound); at pc = "loop" i is the index  *)
(*             enumerate hands out next                                    *)
(*   records, counts, frec   the locals of the same name; frec is the id   *)
(*             of the File object                                          *)
(*   arg       the name passed to the last File(name, session)             *)
(*   nread     rows the csv reader has yielded for the open file           *)
(*   row, o    the last csv row and the result of CreateObject for it      *)
(*   log       the messages logged by the current process                  *)
(*   runs      number of processes started so far; it is also the clock:   *)
(*             datetime.datetime.now() is read with the resolution of one  *)
(*             process start                                               *)
(*   linesOf   history: for each ledger row id, the rows read from the     *)
(*             file it was created for                                     *)
(*   before    history: how the previous process ended and the store the   *)
(*             current one started from ("rebuild" and the empty store     *)
(*             when it was started with the rebuild flag)                  *)
(***************************************************************************)
VARIABLES patterns, files, db, sess, imported, pc, i, j, records, counts,
          frec, arg, nread, row, o, log, runs, linesOf, before

vars == <<patterns, files, db, sess, imported, pc, i, j, records, counts,
          frec, arg, nread, row, o, log, runs, linesOf, before>>

\* The command lines: up to MaxPatterns patterns.  A pattern that matches
\* no file adds nothing to the list of files, so it is given alone only.
PatternLists ==
    {p \in UNION {[1..n -> PatternSet] : n \in 1..MaxPatterns} :
        Len(p) = 1 \/ \A k \in DOMAIN p : Glob(p[k]) # <<>>}

InitLocals ==
    /\ files = <<>>
    /\ imported = <<>>
    /\ i = 0
    /\ j = None
    /\ records = 0
    /\ counts = ZeroCounts
    /\ frec = None
    /\ arg = None
    /\ nread = 0
    /\ o = None
    /\ log = <<>>
    /\ runs = 0
    /\ linesOf = <<>>
    /\ before = [pc |-> "idle", db |-> EmptyStore]
    /\ db = EmptyStore
    /\ sess = EmptyStore

Init ==
    /\ patterns \in PatternLists
    /\ pc = "idle"
    /\ row = None
    /\ InitLocals

Now == runs

Stopped == pc \in {"idle", "done", "raised", "killed"}

InFlight == pc \in {"read", "update"}

\* Lines 113-121 and 150: the glob of the patterns and, when a file was
\* found, the session and the list of current file names; lg is what the
\* process has logged so far.
GlobAndOpen(lg) ==
    LET fs == Flatten([k \in DOMAIN patterns |-> Glob(patterns[k])])
    IN  /\ files' = fs
        /\ IF Len(fs) > 0
           THEN /\ imported' = QueryCurrentFileNames(db)
                /\ log' = lg
                /\ pc' = "loop"
           ELSE /\ imported' = <<>>
                /\ log' = Append(lg, [kind |-> "nofiles"])
                /\ pc' = "done"

\* Lines 95-121 when a process is started.  Without the rebuild flag
\* create_all finds every table in place and the process goes on to the
\* glob.  With it the process enters the loop of drops.
StartRun(rebuild) ==
    /\ Stopped
    /\ runs < MaxRuns
    /\ runs' = runs + 1
    /\ before' = IF rebuild THEN [pc |-> "rebuild", db |-> EmptyStore]
                            ELSE [pc |-> pc, db |-> db]
    /\ IF rebuild
       THEN /\ files' = <<>>
            /\ imported' = <<>>
            /\ log' = <<>>
            /\ pc' = "drop"
       ELSE GlobAndOpen(<<>>)
    /\ sess' = db
    /\ i' = 0
    /\ j' = None
    /\ records' = 0
    /\ counts' = ZeroCounts
    /\ frec' = None
    /\ arg' = None
    /\ nread' = 0
    /\ row' = None
    /\ o' = None
    /\ UNCHANGED <<patterns, db, linesOf>>

\* Lines 106-110 when a process is started without the rebuild flag and
\* the store cannot be reached: create_all raises, the except branch logs
\* the failure and sys.exit() ends the process before the glob.  Nothing
\* was written, and the process is gone with its locals and its log, as
\* after Crash.  (With the flag the same fault ends the process among the
\* drops: Crash at pc = "drop".)
ConnectFault ==
    /\ Stopped
    /\ runs < MaxRuns
    /\ runs' = runs + 1
    /\ before' = [pc |-> pc, db |-> db]
    /\ pc' = "killed"
    /\ sess' = db
    /\ files' = <<>>
    /\ imported' = <<>>
    /\ i' = 0
    /\ j' = None
    /\ records' = 0
    /\ counts' = ZeroCounts
    /\ frec' = None
    /\ arg' = None
    /\ nread' = 0
    /\ row' = None
    /\ o' = None
    /\ log' = <<>>
    /\ UNCHANGED <<patterns, db, linesOf>>

\* Lines 100-104, one pass: the next table is announced and dropped, each
\* drop a statement of its own that is durable at once.  The tables of the
\* record types go first, in the order of RecTypes, the files table last.
\* The number of tables dropped so far is the number of messages logged.
DropTable ==
    /\ pc = "drop"
    /\ Len(log) <= Len(RecordTypeRows)
    /\ LET k == Len(log) + 1
       IN  IF k <= Len(RecordTypeRows)
           THEN LET Kept(x) == x.ob.cls # RecordTypeRows[k][3]
                IN  /\ log' = Append(log,
                                [kind |-> "other",
                                 text |-> "Dropping " \o RecordTypeRows[k][1]
                                              \o " table"])
                    /\ db' = [files   |-> db.files,
                              records |-> SelectSeq(db.records, Kept)]
                    /\ UNCHANGED linesOf
           ELSE /\ log' = Append(log, [kind |-> "other",
                                       text |-> "Dropping File table"])
                /\ db' = [files |-> <<>>, records |-> db.records]
                /\ linesOf' = <<>>
    /\ sess' = db'
    /\ UNCHANGED <<patterns, files, imported, pc, i, j, records, counts,
                   frec, arg, nread, row, o, runs, before>>

\* Lines 106-121 after the last drop: create_all builds the thirteen
\* tables anew, empty, and the process goes on to the glob.
CreateAll ==
    /\ pc = "drop"
    /\ Len(log) = Len(RecordTypeRows) + 1
    /\ GlobAndOpen(log)
    /\ UNCHANGED <<patterns, db, sess, i, j, records, counts, frec, arg,
                   nread, row, o, runs, linesOf, before>>

\* Lines 123-128: the candidate's basename is in the list read at start.
SkipFile ==
    /\ pc = "loop"
    /\ i < Len(files)
    /\ LET fname == Basename(files[i + 1])
       IN  /\ fname \in Range(imported)
           /\ log' = Append(log, [kind |-> "skip", fname |-> fname])
    /\ i' = i + 1
    /\ UNCHANGED <<patterns, files, db, sess, imported, pc, j, records,
                   counts, frec, arg, nread, row, o, runs, linesOf, before>>

\* Lines 129-134: fresh counters, File(fname, session) with its commit,
\* and the file is opened.
BeginFile ==
    /\ pc = "loop"
    /\ i < Len(files)
    /\ LET fname == Basename(files[i + 1])
       IN  /\ fname \notin Range(imported)
           /\ counts' = ZeroCounts
           /\ log' = Append(log, [kind |-> "processing", fname |-> fname,
                                  n |-> i + 1, of |-> Len(files)])
           /\ db' = FileInitCommitted(sess, fname, Now)
           /\ sess' = FileInitSession(sess, fname, Now)
           /\ frec' = Some(Len(sess.files) + 1)
           /\ arg' = Some(fname)
    /\ linesOf' = Append(linesOf, 0)
    /\ nread' = 0
    /\ pc' = "read"
    /\ UNCHANGED <<patterns, files, imported, i, j, records, row, o, runs,
                   before>>

ReadRow_FinallyUpdate(r) ==
    /\ pc = "read"
    /\ SumSeq(linesOf) < MaxLines
    /\ j' = Some(nread)
    /\ row' = Some(r)
    /\ IF r = <<>> \/ r[1] \notin Codes
       THEN /\ pc' = "raised"
            /\ db' = FileUpdate(sess, frec[1], counts, Now)
            /\ sess' = db'
            /\ UNCHANGED <<counts, o, log, nread, linesOf>>
       ELSE LET rt  == RecTypes[r[1]]
                ob  == CreateObject(rt, Tail(r))
            IN  /\ log' = IF Len(r) # Len(rt.fields) + 1
                          THEN Append(log, [kind   |-> "fields",
                                            got    |-> Len(r) - 1,
                                            name   |-> rt.name,
                                            line   |-> nread + 1,
                                            fname  |-> arg[1]])
                          ELSE log
                /\ counts' = [counts EXCEPT ![rt.code] = @ + 1]
                /\ o' = ob
                /\ sess' = IF ob # None
                           THEN [sess EXCEPT !.records =
                                    Append(@, [ob |-> ob[1], src |-> frec[1]])]
                           ELSE sess
                /\ nread' = nread + 1
                /\ linesOf' = [linesOf EXCEPT ![frec[1]] = @ + 1]
                /\ pc' = "read"
                /\ UNCHANGED db
    /\ UNCHANGED <<patterns, files, imported, i, records, frec, arg,
                   runs, before>>

\* Lines 135-143 for one row of the csv reader.  RecTypes[row[0]] raises
\* for an unregistered discriminator (KeyError) and for the empty row of a
\* blank line (IndexError); nothing catches it and the process ends.
ReadRow(r) ==
    /\ pc = "read"
    /\ SumSeq(linesOf) < MaxLines
    /\ j' = Some(nread)
    /\ row' = Some(r)
    /\ IF r = <<>> \/ r[1] \notin Codes
       THEN /\ pc' = "raised"
            /\ sess' = db
            /\ UNCHANGED <<counts, o, log, nread, linesOf>>
       ELSE LET rt  == RecTypes[r[1]]
                ob  == CreateObject(rt, Tail(r))
            IN  /\ log' = IF Len(r) # Len(rt.fields) + 1
                          THEN Append(log, [kind   |-> "fields",
                                            got    |-> Len(r) - 1,
                                            name   |-> rt.name,
                                            line   |-> nread + 1,
                                            fname  |-> arg[1]])
                          ELSE log
                /\ counts' = [counts EXCEPT ![rt.code] = @ + 1]
                /\ o' = ob
                /\ sess' = IF ob # None
                           THEN [sess EXCEPT !.records =
                                    Append(@, [ob |-> ob[1], src |-> frec[1]])]
                           ELSE sess
                /\ nread' = nread + 1
                /\ linesOf' = [linesOf EXCEPT ![frec[1]] = @ + 1]
                /\ pc' = "read"
    /\ UNCHANGED <<patterns, files, db, imported, i, records, frec, arg,
                   runs, before>>

\* Lines 144-145 at the end of the file: records += j+1 (j is unbound when
\* no row was read in this run: UnboundLocalError) and session.commit().
EndOfFile ==
    /\ pc = "read"
    /\ IF j = None
       THEN /\ pc' = "raised"
            /\ sess' = db
            /\ UNCHANGED <<db, records>>
       ELSE /\ records' = records + j[1] + 1
            /\ db' = sess
            /\ pc' = "update"
            /\ UNCHANGED sess
    /\ UNCHANGED <<patterns, files, imported, i, j, counts, frec, arg, nread,
                   row, o, log, runs, linesOf, before>>

\* Line 146: frec.Update(counts, session), which commits.
Update ==
    /\ pc = "update"
    /\ sess' = FileUpdate(sess, frec[1], counts, Now)
    /\ db' = sess'
    /\ i' = i + 1
    /\ pc' = "loop"
    /\ UNCHANGED <<patterns, files, imported, j, records, counts, frec, arg,
                   nread, row, o, log, runs, linesOf, before>>

\* Lines 147-148 after the last file: the summary and session.close().
\* The logged file count is the last enumerate index plus one.
Finish ==
    /\ pc = "loop"
    /\ i = Len(files)
    /\ log' = Append(log, [kind |-> "read", files |-> (i - 1) + 1,
                           records |-> records])
    /\ sess' = db
    /\ pc' = "done"
    /\ UNCHANGED <<patterns, files, db, imported, i, j, records, counts,
                   frec, arg, nread, row, o, runs, linesOf, before>>

\* The process is killed, or the store raises a connectivity fault, between
\* two steps (among the drops the fault is caught at lines 108-110, which
\* end the process as well): the session's uncommitted changes are lost,
\* and so are the locals of the process and its log.
Crash ==
    /\ pc \in {"drop", "loop", "read", "update"}
    /\ pc' = "killed"
    /\ sess' = db
    /\ files' = <<>>
    /\ imported' = <<>>
    /\ i' = 0
    /\ j' = None
    /\ records' = 0
    /\ counts' = ZeroCounts
    /\ frec' = None
    /\ arg' = None
    /\ nread' = 0
    /\ row' = None
    /\ o' = None
    /\ log' = <<>>
    /\ UNCHANGED <<patterns, db, runs, linesOf, before>>

Next ==
    \/ \E rebuild \in BOOLEAN : StartRun(rebuild)
    \/ ConnectFault
    \/ DropTable
    \/ CreateAll
    \/ SkipFile
    \/ BeginFile
    \/ \E r \in PipelineRows : ReadRow(r)
    \/ EndOfFile
    \/ Update
    \/ Finish
    \/ Crash

Spec == Init /\ [][Next]_vars

(***************************************************************************)
(* The field mapper on its own: CreateObject applied to one row of any     *)
(* record type.  The rows have the declared number of fields, or up to     *)
(* MapSlack fewer or more, with several patterns of empty fields.          *)
(***************************************************************************)
EmptyPatterns(m) ==
    { {}, {1} \cap (1..m), {m} \cap (1..m), 1..m,
      {k \in 1..m : k % 2 = 0}, {k \in 1..m : k % 2 = 1} }

MapRows ==
    UNION { UNION { { Line(c, m, e) : e \in EmptyPatterns(m) } :
                    m \in { n \in (Len(RecTypes[c].fields) - MapSlack)
                                  ..(Len(RecTypes[c].fields) + MapSlack) :
                            n >= 0 } } :
            c \in Codes }

MapInit ==
    /\ patterns = <<>>
    /\ pc = "map"
    /\ row \in {Some(r) : r \in MapRows}
    /\ InitLocals

\* rt = RecTypes[row[0]]; o = CreateObject(rt, row[1:])   (lines 136, 141)
MapRow ==
    /\ pc = "map"
    /\ o' = CreateObject(RecTypes[row[1][1]], Tail(row[1]))
    /\ pc' = "mapped"
    /\ UNCHANGED <<patterns, files, db, sess, imported, i, j, records, counts,
                   frec, arg, nread, row, log, runs, linesOf, before>>

MapNext == MapRow

SpecMap == MapInit /\ [][MapNext]_vars

(***************************************************************************)
(* The ledger on its own: a caller that creates File objects by name and   *)
(* finalizes them with File.Update, in one session at a time.              *)
(***************************************************************************)
LedgerNames == { <<"a.csv">>, <<"b.csv">>, <<"d", "a.csv">> }

LedgerCounters ==
    { ZeroCounts, [ZeroCounts EXCEPT !["21"] = 2, !["99"] = 1, !["Error"] = 1] }

LedgerInit ==
    /\ patterns = <<>>
    /\ pc = "api"
    /\ row = None
    /\ InitLocals

\* frec = File(name, session)
LedgerBegin(name) ==
    /\ pc \in {"api", "open"}
    /\ Len(sess.files) < MaxCalls
    /\ db' = FileInitCommitted(sess, name, Now)
    /\ sess' = FileInitSession(sess, name, Now)
    /\ frec' = Some(Len(sess.files) + 1)
    /\ arg' = Some(name)
    /\ linesOf' = Append(linesOf, 0)
    /\ pc' = "open"
    /\ UNCHANGED <<patterns, files, imported, i, j, records, counts, nread,
                   row, o, log, runs, before>>

\* frec.Update(counters, session)
LedgerUpdate(counters) ==
    /\ pc = "open"
    /\ counts' = counters
    /\ sess' = FileUpdate(sess, frec[1], counters, Now)
    /\ db' = sess'
    /\ pc' = "api"
    /\ UNCHANGED <<patterns, files, imported, i, j, records, frec, arg, nread,
                   row, o, log, runs, linesOf, before>>

\* The session is abandoned (the caller ends, or rolls back) and a new one
\* is opened: the uncommitted changes are lost.
LedgerNewSession ==
    /\ pc \in {"api", "open"}
    /\ sess' = db
    /\ frec' = None
    /\ arg' = None
    /\ pc' = "api"
    /\ UNCHANGED <<patterns, files, db, imported, i, j, records, counts,
                   nread, row, o, log, runs, linesOf, before>>

LedgerNext ==
    \/ \E name \in LedgerNames : LedgerBegin(name)
    \/ \E counters \in LedgerCounters : LedgerUpdate(counters)
    \/ LedgerNewSession

SpecLedger == LedgerInit /\ [][LedgerNext]_vars

(***************************************************************************)
(* Two pipeline processes at once against one store.  In this              *)
(* specification every variable of a process (patterns, files, imported,   *)
(* pc, i, j, records, counts, frec, arg, nread, row, o, log) holds one     *)
(* value per worker, db is the one committed store, and sess holds, per    *)
(* worker, what its session holds: the store as it was when the           *)
(* transaction that is open since line 121 began (None once the session    *)
(* has committed, or has no such transaction), the ids of the rows         *)
(* File.__init__ read as old, the id they are marked superseded by (None   *)
(* until they are marked), and the objects added since its last commit.    *)
(* session.commit() writes the pending changes to the latest committed     *)
(* store and ends the transaction.  What a query reads depends on the      *)
(* store the connection string names: the latest committed store (READ     *)
(* COMMITTED), or, for a query in a transaction that has read before, the  *)
(* store as it was at that first read (REPEATABLE READ, the default of     *)
(* the connector's default, mysql+mysqlconnector); the code sets no        *)
(* isolation level, so either may happen.  The only query that follows an  *)
(* earlier read in the same transaction is that of File.__init__ for the   *)
(* first file a worker does not skip.  The code takes no lock and the      *)
(* files table has no unique key on FileName, so the statements of the two *)
(* processes interleave freely: a step of a worker holds at most one read  *)
(* of the store or one commit.  Each worker is started once, without the   *)
(* rebuild flag, with one pattern.                                         *)
(***************************************************************************)
Workers == {1, 2}

NoPending == [snap |-> None, old |-> {}, by |-> None, records |-> <<>>]

\* The store a commit of pending changes p on top of s leaves.
Flush(s, p) ==
    [files   |-> [r \in DOMAIN s.files |->
                    IF r \in p.old /\ p.by # None
                    THEN [s.files[r] EXCEPT !.SupersededBy = p.by]
                    ELSE s.files[r]],
     records |-> s.records \o p.records]

\* The committed store after session.commit() in worker w.
Committed(w) == Flush(db, sess[w])

\* The stores a query of worker w may read, each with the session's own
\* pending changes on top: the latest committed one and, while the
\* transaction of line 121 is open, the one that transaction began with.
Readable(w) ==
    {Flush(db, sess[w])}
    \cup {Flush(sess[w].snap[k], sess[w]) : k \in DOMAIN sess[w].snap}

ConcPatternLists == {<<p>> : p \in PatternSet}

ConcInit ==
    /\ patterns \in [Workers -> ConcPatternLists]
    /\ db = EmptyStore
    /\ sess = [w \in Workers |-> NoPending]
    /\ files = [w \in Workers |-> <<>>]
    /\ imported = [w \in Workers |-> <<>>]
    /\ pc = [w \in Workers |-> "idle"]
    /\ i = [w \in Workers |-> 0]
    /\ j = [w \in Workers |-> None]
    /\ records = [w \in Workers |-> 0]
    /\ counts = [w \in Workers |-> ZeroCounts]
    /\ frec = [w \in Workers |-> None]
    /\ arg = [w \in Workers |-> None]
    /\ nread = [w \in Workers |-> 0]
    /\ row = [w \in Workers |-> None]
    /\ o = [w \in Workers |-> None]
    /\ log = [w \in Workers |-> <<>>]
    /\ runs = 0
    /\ linesOf = <<>>
    /\ before = [pc |-> "idle", db |-> EmptyStore]

\* Lines 113-121 in worker w: the glob and, when a file was found, the
\* session and the list of current file names, read from the store as
\* committed at that moment; the read opens the session's transaction.
ConcStart(w) ==
    /\ pc[w] = "idle"
    /\ runs' = runs + 1
    /\ LET fs == Flatten([k \in DOMAIN patterns[w] |-> Glob(patterns[w][k])])
       IN  /\ files' = [files EXCEPT ![w] = fs]
           /\ IF Len(fs) > 0
              THEN /\ imported' = [imported EXCEPT
                                      ![w] = QueryCurrentFileNames(db)]
                   /\ sess' = [sess EXCEPT ![w].snap = Some(db)]
                   /\ pc' = [pc EXCEPT ![w] = "loop"]
                   /\ UNCHANGED log
              ELSE /\ log' = [log EXCEPT ![w] = << [kind |-> "nofiles"] >>]
                   /\ pc' = [pc EXCEPT ![w] = "done"]
                   /\ UNCHANGED <<imported, sess>>
    /\ UNCHANGED <<patterns, db, i, j, records, counts, frec, arg,
                   nread, row, o, linesOf, before>>

\* Lines 123-128 in worker w.
ConcSkipFile(w) ==
    /\ pc[w] = "loop"
    /\ i[w] < Len(files[w])
    /\ LET fname == Basename(files[w][i[w] + 1])
       IN  /\ fname \in Range(imported[w])
           /\ log' = [log EXCEPT
                         ![w] = Append(@, [kind |-> "skip", fname |-> fname])]
    /\ i' = [i EXCEPT ![w] = @ + 1]
    /\ UNCHANGED <<patterns, files, db, sess, imported, pc, j, records,
                   counts, frec, arg, nread, row, o, runs, linesOf, before>>

\* Lines 129-132 in worker w, up to the query of File.__init__ (lines
\* 71-73 of AddressBase.py): the rows of the name that are current in the
\* store the query reads are read into old.
ConcBeginFile(w) ==
    /\ pc[w] = "loop"
    /\ i[w] < Len(files[w])
    /\ LET fname == Basename(files[w][i[w] + 1])
       IN  /\ fname \notin Range(imported[w])
           /\ counts' = [counts EXCEPT ![w] = ZeroCounts]
           /\ log' = [log EXCEPT
                         ![w] = Append(@, [kind |-> "processing",
                                           fname |-> fname,
                                           n |-> i[w] + 1,
                                           of |-> Len(files[w])])]
           /\ \E s \in Readable(w) :
                 sess' = [sess EXCEPT ![w].old = QueryCurrent(s, fname),
                                      ![w].by = None]
           /\ arg' = [arg EXCEPT ![w] = Some(fname)]
    /\ pc' = [pc EXCEPT ![w] = "init"]
    /\ UNCHANGED <<patterns, files, db, imported, i, j, records, frec, nread,
                   row, o, runs, linesOf, before>>

\* The rest of File.__init__ (lines 74-78 of AddressBase.py) and line 134
\* in worker w: the new row is inserted and committed, with the id the
\* store gives it at that moment; the rows read as old, whatever has
\* become of them since, are marked in the session; the file is opened.
ConcFileCommit(w) ==
    /\ pc[w] = "init"
    /\ LET id == Len(db.files) + 1
       IN  /\ db' = FileInitCommitted(Committed(w), arg[w][1], Now)
           /\ sess' = [sess EXCEPT ![w].by = Some(id), ![w].snap = None]
           /\ frec' = [frec EXCEPT ![w] = Some(id)]
    /\ linesOf' = Append(linesOf, 0)
    /\ nread' = [nread EXCEPT ![w] = 0]
    /\ pc' = [pc EXCEPT ![w] = "read"]
    /\ UNCHANGED <<patterns, files, imported, i, j, records, counts, arg,
                   row, o, log, runs, before>>

\* Lines 135-143 in worker w for one row of its csv reader.
ConcReadRow(w, r) ==
    /\ pc[w] = "read"
    /\ SumSeq(linesOf) < MaxLines
    /\ j' = [j EXCEPT ![w] = Some(nread[w])]
    /\ row' = [row EXCEPT ![w] = Some(r)]
    /\ IF r = <<>> \/ r[1] \notin Codes
       THEN /\ pc' = [pc EXCEPT ![w] = "raised"]
            /\ sess' = [sess EXCEPT ![w] = NoPending]
            /\ UNCHANGED <<counts, o, log, nread, linesOf>>
       ELSE LET rt  == RecTypes[r[1]]
                ob  == CreateObject(rt, Tail(r))
            IN  /\ log' = IF Len(r) # Len(rt.fields) + 1
                          THEN [log EXCEPT
                                   ![w] = Append(@, [kind   |-> "fields",
                                                     got    |-> Len(r) - 1,
                                                     name   |-> rt.name,
                                                     line   |-> nread[w] + 1,
                                                     fname  |-> arg[w][1]])]
                          ELSE log
                /\ counts' = [counts EXCEPT ![w][rt.code] = @ + 1]
                /\ o' = [o EXCEPT ![w] = ob]
                /\ sess' = IF ob # None
                           THEN [sess EXCEPT ![w].records =
                                    Append(@, [ob  |-> ob[1],
                                               src |-> frec[w][1]])]
                           ELSE sess
                /\ nread' = [nread EXCEPT ![w] = @ + 1]
                /\ linesOf' = [linesOf EXCEPT ![frec[w][1]] = @ + 1]
                /\ UNCHANGED pc
    /\ UNCHANGED <<patterns, files, db, imported, i, records, frec, arg,
                   runs, before>>

\* Lines 144-145 in worker w.
ConcEndOfFile(w) ==
    /\ pc[w] = "read"
    /\ IF j[w] = None
       THEN /\ pc' = [pc EXCEPT ![w] = "raised"]
            /\ UNCHANGED <<db, records>>
       ELSE /\ records' = [records EXCEPT ![w] = @ + j[w][1] + 1]
            /\ db' = Committed(w)
            /\ pc' = [pc EXCEPT ![w] = "update"]
    /\ sess' = [sess EXCEPT ![w] = NoPending]
    /\ UNCHANGED <<patterns, files, imported, i, j, counts, frec, arg, nread,
                   row, o, log, runs, linesOf, before>>

\* Line 146 in worker w.
ConcUpdate(w) ==
    /\ pc[w] = "update"
    /\ db' = FileUpdate(Committed(w), frec[w][1], counts[w], Now)
    /\ sess' = [sess EXCEPT ![w] = NoPending]
    /\ i' = [i EXCEPT ![w] = @ + 1]
    /\ pc' = [pc EXCEPT ![w] = "loop"]
    /\ UNCHANGED <<patterns, files, imported, j, records, counts, frec, arg,
                   nread, row, o, log, runs, linesOf, before>>

\* Lines 147-148 in worker w.
ConcFinish(w) ==
    /\ pc[w] = "loop"
    /\ i[w] = Len(files[w])
    /\ log' = [log EXCEPT
                  ![w] = Append(@, [kind    |-> "read",
                                    files   |-> (i[w] - 1) + 1,
                                    records |-> records[w]])]
    /\ sess' = [sess EXCEPT ![w] = NoPending]
    /\ pc' = [pc EXCEPT ![w] = "done"]
    /\ UNCHANGED <<patterns, files, db, imported, i, j, records, counts,
                   frec, arg, nread, row, o, runs, linesOf, before>>

ConcNext ==
    \E w \in Workers :
        \/ ConcStart(w)
        \/ ConcSkipFile(w)
        \/ ConcBeginFile(w)
        \/ ConcFileCommit(w)
        \/ \E r \in PipelineRows : ConcReadRow(w, r)
        \/ ConcEndOfFile(w)
        \/ ConcUpdate(w)
        \/ ConcFinish(w)

SpecConc == ConcInit /\ [][ConcNext]_vars

(***************************************************************************)
(* Vocabulary of the properties.                                           *)
(***************************************************************************)
Rows(s) == DOMAIN s.files

Finalized(s, r) == s.files[r].CreateEnd # None

Counted(s, r) ==
    \/ s.files[r].Errors # None
    \/ \E k \in DOMAIN CountColumns : s.files[r][CountColumns[k]] # None

CountSum(s, r) ==
    LET f == s.files[r]
    IN  f.Headers[1] + f.Streets[1] + f.StreetDescriptors[1] + f.BLPUs[1]
        + f.ApplicationXREFs[1] + f.LPIs[1] + f.DeliveryPointAddresses[1]
        + f.MetaData[1] + f.SuccessorXREFs[1] + f.Organisations[1]
        + f.Classifications[1] + f.Trailers[1]

RecordsOf(s, r) == {k \in DOMAIN s.records : s.records[k].src = r}

\* The process is importing the file of ledger row r.
Importing(r) == InFlight /\ frec = Some(r)

\* The step taken is ReadRow: only it binds j to the reader's position.
IsReadStep == pc = "read" /\ j' = Some(nread) /\ pc' \in {"read", "raised"}

Registered(r) == r # <<>> /\ r[1] \in Codes

LastOf(s) == s[Len(s)]

(***************************************************************************)
(* C1.  A candidate whose basename is the FileName of a row that is        *)
(* current when the candidate is reached is skipped entirely: the step     *)
(* taken for it creates no row, supersedes none and persists nothing, also *)
(* when the current row was created earlier in the same run.  Stated for   *)
(* the candidates whose path did not occur earlier in the list.            *)
(***************************************************************************)
C1_SkipWhenCurrent ==
    [][ ( /\ pc = "loop"
          /\ i < Len(files)
          /\ \A k \in 1..i : files[k] # files[i + 1]
          /\ QueryCurrent(db, Basename(files[i + 1])) # {}
          /\ pc' # "killed" )
        => ( /\ pc' = "loop"
             /\ i' = i + 1
             /\ db' = db
             /\ sess' = sess ) ]_vars

(***************************************************************************)
(* C2.  In every committed store, at most one row per FileName has         *)
(* SupersededBy absent.                                                    *)
(***************************************************************************)
C2_OneCurrentPerName ==
    \A r1, r2 \in Rows(db) :
        ( /\ r1 # r2
          /\ IsCurrent(db.files[r1])
          /\ IsCurrent(db.files[r2]) )
        => db.files[r1].FileName # db.files[r2].FileName

(***************************************************************************)
(* C3.  Supersession chaining.  When an import begun with File(name,       *)
(* session), name a basename, has completed (File.Update committed), its   *)
(* row is current and every earlier row with that FileName is superseded   *)
(* by a row with a larger id, no later than the new row; and a row is only *)
(* ever superseded by a later row with the same FileName.                  *)
(***************************************************************************)
C3_SupersessionChain ==
    /\ \A r \in Rows(db) :
          db.files[r].SupersededBy # None
          => LET s == db.files[r].SupersededBy[1]
             IN  /\ s > r
                 /\ s \in Rows(db)
                 /\ db.files[s].FileName = db.files[r].FileName
    /\ ( /\ pc = "api"
         /\ frec # None
         /\ arg = Some(Basename(arg[1]))
         /\ Finalized(db, frec[1]) )
       => /\ IsCurrent(db.files[frec[1]])
          /\ \A r \in Rows(db) :
                ( r < frec[1] /\ db.files[r].FileName = arg[1] )
                => /\ db.files[r].SupersededBy # None
                   /\ db.files[r].SupersededBy[1] > r
                   /\ db.files[r].SupersededBy[1] <= frec[1]

\* Three imports of a.csv by its bare name, the last one completed: the
\* first row is superseded by the second, the second by the third.
C3_Witness ==
    /\ pc = "api"
    /\ frec = Some(3)
    /\ arg = Some(<<"a.csv">>)
    /\ Len(db.files) = 3
    /\ \A r \in 1..3 : db.files[r].FileName = <<"a.csv">>
    /\ db.files[1].SupersededBy = Some(2)
    /\ db.files[2].SupersededBy = Some(3)
    /\ db.files[3].SupersededBy = None
    /\ Finalized(db, 3)

(***************************************************************************)
(* C4.  Count conservation.  For every finalized row the twelve counts     *)
(* and Errors are all written and their sum is the number of rows read     *)
(* from the file the row was created for.                                  *)
(***************************************************************************)
C4_CountConservation ==
    \A r \in Rows(db) :
        Finalized(db, r)
        => /\ db.files[r].Errors # None
           /\ \A k \in DOMAIN CountColumns :
                 db.files[r][CountColumns[k]] # None
           /\ CountSum(db, r) + db.files[r].Errors[1] = linesOf[r]

\* Two finalized rows of one run, the first for a file of one BLPU row and
\* the second for a file of one Trailer row: each row counts its own file
\* only.
C4_Witness ==
    \E r1, r2 \in Rows(db) :
        /\ r1 < r2
        /\ Finalized(db, r1)
        /\ Finalized(db, r2)
        /\ linesOf[r1] = 1
        /\ db.files[r1].BLPUs = Some(1)
        /\ db.files[r1].Trailers = Some(0)
        /\ linesOf[r2] = 1
        /\ db.files[r2].BLPUs = Some(0)
        /\ db.files[r2].Trailers = Some(1)

(***************************************************************************)
(* C5.  Unknown discriminator resilience.  After a row whose first field   *)
(* is not a registered code has been read, the process has not been ended  *)
(* by it and the file's error counter includes that row.                   *)
(***************************************************************************)
C5_UnknownDiscriminator ==
    ( /\ row # None
      /\ row[1] # <<>>
      /\ row[1][1] \notin Codes )
    => ( /\ pc # "raised"
         /\ counts["Error"] >= 1 )

(***************************************************************************)
(* C6.  Idempotent re-run.  When a process that was not started with the   *)
(* rebuild flag ends of itself, after an earlier one that ended of itself  *)
(* on the same patterns, it has skipped every candidate and the store is   *)
(* the one the earlier process left.                                       *)
(***************************************************************************)
C6_IdempotentRerun ==
    ( /\ runs >= 2
      /\ before.pc \in {"done", "raised"}
      /\ pc \in {"done", "raised"}
      /\ Len(files) > 0 )
    => ( /\ db = before.db
         /\ pc = "done"
         /\ Len(log) = Len(files) + 1
         /\ \A k \in 1..Len(files) : log[k].kind = "skip" )

(***************************************************************************)
(* C7.  CreateEnd and the counts of a row are written only by the step     *)
(* that follows the end of its file and the commit of its records; a row   *)
(* whose import is no longer in progress and that has no CreateEnd keeps   *)
(* CreateEnd and the counts absent.                                        *)
(***************************************************************************)
C7_FinalizeLast ==
    [][ \A r \in Rows(db') :
          /\ ( /\ Finalized(db', r) \/ Counted(db', r)
               /\ r \in Rows(db) => ~(Finalized(db, r) \/ Counted(db, r)) )
             => ( /\ pc = "update"
                  /\ frec = Some(r)
                  /\ db.records = sess.records
                  /\ Cardinality(RecordsOf(db, r)) + counts["Error"] = linesOf[r] )
          /\ ( /\ r \in Rows(db)
               /\ ~Finalized(db, r)
               /\ ~Importing(r) )
             => ( ~Finalized(db', r) /\ ~Counted(db', r) ) ]_vars

\* A first process was ended while a file was in flight, after at least
\* one row of it was read; a second process has run to its end and the row
\* still has no CreateEnd.
C7_Witness ==
    /\ runs = 2
    /\ pc = "done"
    /\ before.pc \in {"raised", "killed"}
    /\ \E r \in Rows(db) :
          /\ ~Finalized(db, r)
          /\ ~Counted(db, r)
          /\ linesOf[r] >= 1
    /\ \E r \in Rows(db) : Finalized(db, r)

(***************************************************************************)
(* C8.  A row whose import was cut short (no CreateEnd, no import of it in *)
(* progress) is current and none of its file's records is in the           *)
(* committed store, in the state the crash leaves and ever after.          *)
(***************************************************************************)
C8_CrashLeavesNoRecords ==
    \A r \in Rows(db) :
        ( ~Finalized(db, r) /\ ~Importing(r) )
        => ( /\ IsCurrent(db.files[r])
             /\ RecordsOf(db, r) = {} )

(***************************************************************************)
(* C9.  Mismatched field count.  A row of a registered, non-ignored type   *)
(* with more or fewer fields than declared does not end the process: an    *)
(* object of the type is added to the session with field k taken from raw  *)
(* field k (None when it is empty) for every k up to the shorter length    *)
(* and None beyond, the type's count goes up by one and no other count     *)
(* changes, and a diagnostic with the line number is logged.               *)
(***************************************************************************)
C9_FieldCountMismatch ==
    [][ ( /\ IsReadStep
          /\ Registered(row'[1])
          /\ ~RecTypes[row'[1][1]].ignore
          /\ Len(row'[1]) - 1 # Len(RecTypes[row'[1][1]].fields) )
        => LET rt  == RecTypes[row'[1][1]]
               raw == Tail(row'[1])
           IN  /\ pc' = "read"
               /\ Len(sess'.records) = Len(sess.records) + 1
               /\ SubSeq(sess'.records, 1, Len(sess.records)) = sess.records
               /\ LastOf(sess'.records).ob.cls = rt.mapping
               /\ \A k \in DOMAIN rt.fields :
                     LastOf(sess'.records).ob.attrs[rt.fields[k]] =
                        IF k <= Len(raw) /\ raw[k] # "" THEN Some(raw[k])
                                                        ELSE None
               /\ counts' = [counts EXCEPT ![rt.code] = @ + 1]
               /\ Len(log') = Len(log) + 1
               /\ LastOf(log').kind = "fields"
               /\ LastOf(log').line = nread + 1
               /\ LastOf(log').got = Len(raw) ]_vars

\* A file with a BLPU row carrying one extra field and a Trailer row two
\* fields short has been imported to the end: both objects are committed
\* and both diagnostics were logged.
C9_Witness ==
    /\ pc = "loop"
    /\ frec # None
    /\ Finalized(db, frec[1])
    /\ \E k1, k2 \in RecordsOf(db, frec[1]) :
          /\ db.records[k1].ob.cls = "BLPU"
          /\ db.records[k1].ob.attrs["MULTI_OCC_COUNT"] = Some("v21")
          /\ db.records[k2].ob.cls = "Trailer"
          /\ db.records[k2].ob.attrs["RECORD_COUNT"] = Some("v02")
          /\ db.records[k2].ob.attrs["TIME_STAMP"] = None
    /\ Cardinality({k \in DOMAIN log : log[k].kind = "fields"}) = 2

(***************************************************************************)
(* C10.  Field mapping.  The field list of a type is its class's           *)
(* attributes in declared order without the key id; for a row with exactly *)
(* as many raw fields as the type declares, CreateObject yields an object  *)
(* of the class whose field k is raw field k, or None when raw field k is  *)
(* empty, for every k, and whose other attributes are unset.               *)
(***************************************************************************)
C10_FieldMapping ==
    ( /\ pc = "mapped"
      /\ Len(row[1]) - 1 = Len(RecTypes[row[1][1]].fields) )
    => LET rt  == RecTypes[row[1][1]]
           raw == Tail(row[1])
       IN  /\ o # None
           /\ o[1].cls = rt.mapping
           /\ \A k \in DOMAIN rt.fields :
                 /\ rt.fields[k] = MappedAttrs[rt.mapping][k + 1]
                 /\ o[1].attrs[rt.fields[k]] =
                       IF raw[k] = "" THEN None ELSE Some(raw[k])
           /\ \A a \in DOMAIN o[1].attrs :
                 a \notin Range(rt.fields) => o[1].attrs[a] = None

\* A Delivery Point Address row of the declared 28 fields with the even
\* fields empty has been mapped.
C10_Witness ==
    /\ pc = "mapped"
    /\ row[1][1] = "28"
    /\ Len(row[1]) = 29
    /\ row[1][3] = ""
    /\ row[1][2] = "v01"
    /\ o # None
    /\ o[1].attrs["ENTRY_DATE"] = None
    /\ o[1].attrs["LAST_UPDATE_DATE"] = Some("v27")
(***************************************************************************)
(* C11.  Of two concurrent workers at most one creates a ledger row for    *)
(* and imports a given basename: no basename is processed by both, and a   *)
(* worker that reaches a candidate whose basename has a current row in the *)
(* committed store skips it.                                               *)
(***************************************************************************)
\* The basenames worker w has created a ledger row for: those it has
\* announced, but for the one whose File.__init__ has not committed yet.
Processed(w) ==
    {log[w][k].fname :
        k \in {n \in DOMAIN log[w] :
                  /\ log[w][n].kind = "processing"
                  /\ pc[w] = "init" => n < Len(log[w])}}

C11_OneImporterPerName ==
    \A w1 \in Workers : \A w2 \in Workers \ {w1} :
        Processed(w1) \cap Processed(w2) = {}

(***************************************************************************)
(* C12.  The records of a file and its CreateEnd become durable together:  *)
(* in every committed store a row with CreateEnd has all the records of    *)
(* its file, and a row without CreateEnd has none.                         *)
(***************************************************************************)
C12_DurableTogether ==
    \A r \in Rows(db) :
        /\ Finalized(db, r) => Cardinality(RecordsOf(db, r)) = linesOf[r]
        /\ ~Finalized(db, r) => RecordsOf(db, r) = {}

(***************************************************************************)
(* C13.  The candidate list of a run holds no path twice, and within one   *)
(* run no path is processed (a ledger row created for it and the file      *)
(* opened) more than once.                                                 *)
(***************************************************************************)
C13_CandidatesDeduplicated ==
    /\ \A k1 \in DOMAIN files : \A k2 \in DOMAIN files :
          k1 < k2 => files[k1] # files[k2]
    /\ \A n1 \in DOMAIN log : \A n2 \in DOMAIN log :
          ( /\ n1 < n2
            /\ log[n1].kind = "processing"
            /\ log[n2].kind = "processing" )
          => files[log[n1].n] # files[log[n2].n]

(***************************************************************************)
(* C14.  After File(name, session) with a name that has directory          *)
(* components, the new row's FileName is the basename of name and, in the  *)
(* session, no earlier row with that FileName is current.                  *)
(***************************************************************************)
C14_PathSupersedesBasename ==
    ( pc = "open" /\ Len(arg[1]) > 1 )
    => ( /\ sess.files[frec[1]].FileName = Basename(arg[1])
         /\ \A r \in 1..(frec[1] - 1) :
               sess.files[r].FileName = Basename(arg[1])
               => ~IsCurrent(sess.files[r]) )

(***************************************************************************)
(* C15.  The summary logged at the end of a run reports as its record      *)
(* count the number of rows read from the files processed in the run (an   *)
(* empty file adding nothing), and as its file count the number of files   *)
(* processed, skipped files not included.                                  *)
(***************************************************************************)
ProcessedInRun ==
    Cardinality({n \in DOMAIN log : log[n].kind = "processing"})

\* The ledger rows of the files processed in the run are the last ones.
LinesReadInRun ==
    SumSeq(SubSeq(linesOf, Len(linesOf) - ProcessedInRun + 1, Len(linesOf)))

C15_SummaryTotals ==
    ( pc = "done" /\ files # <<>> )
    => ( /\ LastOf(log).kind = "read"
         /\ LastOf(log).records = LinesReadInRun
         /\ LastOf(log).files = ProcessedInRun )

=============================================================================
